---- MODULE Spec2Model ----
(***************************************************************************)
(* Model of the asynchronous logging core in src/src/asynclog.cpp:         *)
(* per-producer input ring buffers (allocate_input_frame, commit,          *)
(* wait_input_consumed), the shared queue of commit extents with its two   *)
(* events, the consumer thread (output_worker), the output buffer          *)
(* (reserve, flush) and cleanup().                                         *)
(*                                                                         *)
(* Positions are byte offsets from pbegin_.  The header dlog.hpp is not    *)
(* part of the sources; what it defines (input_buffer::commit,             *)
(* queue_commit_extent, spsc_event, the shared queue, output_buffer::commit*)
(* and the dispatch functions) is modelled from the written specification. *)
(***************************************************************************)
EXTENDS Integers, Sequences, FiniteSets, TLC

\* ------------------------------------------------------------------ bounds
\* Ring capacity in alignment quanta (the program uses 8*4096 bytes).
CapFrames == 4
\* Frames the main thread logs in a run in which it alone logs.
MaxFrames == 4
\* Frames the main thread and the other thread log in a run with two
\* producers.
MainFrames == 2
OtherFrames == 1
\* Capacity of the shared queue of commit extents.
QueueCap == 2
\* Capacity of the output buffer in bytes (the program's default is 1 MiB).
OutCap == 3

\* --------------------------------------------------------------- constants
FRAME_ALIGNMENT == 8
TLS_INPUT_BUFFER_SIZE == CapFrames * FRAME_ALIGNMENT
BackoffCapMs == 1000

Producers == {1, 2}
\* The thread that calls cleanup().
MainThread == 1
\* The null buffer reference of the shutdown sentinel.
NullBuffer == 0

WriterResults == {"SUCCESS", "ERROR_TRY_LATER", "ERROR_GIVE_UP"}

\* Offsets a frame pointer may take: aligned and below the end of the ring.
Positions == {i * FRAME_ALIGNMENT : i \in 0 .. (CapFrames - 1)}
\* Sizes a caller may ask for: aligned, at most CAP - FRAME_ALIGNMENT.
FrameSizes == {i * FRAME_ALIGNMENT : i \in 1 .. (CapFrames - 1)}

\* The first word of a ring slot: the wraparound marker, the dispatch pointer
\* of frame `id` whose dispatch function returns `size`, or Garbage: a word
\* that is neither (never written, or left behind by a frame or marker the
\* consumer has already passed).
Garbage == [kind |-> "garbage", id |-> 0, size |-> 0]
WRAPAROUND_MARKER == [kind |-> "marker", id |-> 0, size |-> 0]
FrameWord(id, size) == [kind |-> "frame", id |-> id, size |-> size]

VARIABLES
    input_start,    \* pinput_start_ of each input buffer
    input_end,      \* pinput_end_
    commit_end,     \* pcommit_end_
    mem,            \* first word of every aligned slot of each ring
    input_consumed_event,   \* input_consumed_event_ of each buffer
    queue,          \* g_shared_input_queue
    consumed_event, \* g_shared_input_consumed_event
    full_event,     \* g_shared_input_queue_full_event
    pc,             \* position of each producer thread
    asize,          \* size argument of the allocation in progress (0: none)
    after,          \* where the producer continues after queueing
    cpc,            \* position of the consumer thread
    ce,             \* commit extent the consumer popped
    wait_time_ms,   \* back-off of the consumer
    out_used,       \* pcommit_end_ - pbuffer_ of the output buffer
    out_buf,        \* frames whose bytes are in the output buffer
    writer_result,  \* what the writer returned in the consumer's latest
                    \* step ("NONE": that step did not call the writer)
    gave_up,        \* the writer has returned ERROR_GIVE_UP
    quota,          \* frames each producer will still ask for in this run
    nalloc,         \* history: frames allocated by each producer
    dispatched,     \* history: frames dispatched, per producer
    wraps,          \* history: markers the consumer traversed, per producer
    handed,         \* history: frames passed to the writer, per producer
    pushed,         \* history: frames covered by extents pushed, per producer
    at_sentinel,    \* history: `pushed` when the sentinel was pushed
    out_capacity,   \* pbuffer_end_ - pbuffer_ of the output buffer
    start_seen      \* history: the values pinput_start_ of each buffer has
                    \* held since its producer's latest allocation ({}: the
                    \* run does not record them)

vars == <<input_start, input_end, commit_end, mem, input_consumed_event,
          queue, consumed_event, full_event, pc, asize, after,
          cpc, ce, wait_time_ms, out_used, out_buf, writer_result, gave_up,
          quota, nalloc, dispatched, wraps, handed, pushed, at_sentinel,
          out_capacity, start_seen>>

ringVars == <<input_start, input_end, commit_end, mem>>
prodVars == <<pc, asize, after>>
histVars == <<quota, nalloc, dispatched, wraps, start_seen>>
queueVars == <<queue, pushed, at_sentinel>>
eventVars == <<input_consumed_event, consumed_event, full_event>>
consumerVars == <<cpc, ce, wait_time_ms>>
outVars == <<out_used, out_buf, writer_result, gave_up, handed, out_capacity>>

NoExtent == [buf |-> NullBuffer, end |-> 0, n |-> 0]

\* The state after initialize(): empty rings, the consumer about to pop.
\* `frames` gives the number of frames each thread logs in the run.
InitWith(frames, capacity, seen) ==
    /\ quota = frames
    /\ input_start = [p \in Producers |-> 0]
    /\ input_end = [p \in Producers |-> 0]
    /\ commit_end = [p \in Producers |-> 0]
    /\ mem = [p \in Producers |-> [q \in Positions |-> Garbage]]
    /\ input_consumed_event = [p \in Producers |-> FALSE]
    /\ queue = << >>
    /\ consumed_event = FALSE
    /\ full_event = FALSE
    /\ pc = [p \in Producers |-> "idle"]
    /\ asize = [p \in Producers |-> 0]
    /\ after = [p \in Producers |-> "idle"]
    /\ cpc = "pop"
    /\ ce = NoExtent
    /\ wait_time_ms = 0
    /\ out_used = 0
    /\ out_buf = << >>
    /\ writer_result = "NONE"
    /\ gave_up = FALSE
    /\ nalloc = [p \in Producers |-> 0]
    /\ dispatched = [p \in Producers |-> << >>]
    /\ wraps = [p \in Producers |-> 0]
    /\ handed = [p \in Producers |-> << >>]
    /\ pushed = [p \in Producers |-> 0]
    /\ at_sentinel = [p \in Producers |-> -1]
    /\ out_capacity = capacity
    /\ start_seen = [p \in Producers |-> seen]

\* Runs in which the main thread alone logs.
Init ==
    InitWith([p \in Producers |-> IF p = MainThread THEN MaxFrames ELSE 0],
             OutCap, {})

\* Runs in which a second thread logs beside the main thread.
InitTwo ==
    InitWith([p \in Producers |-> IF p = MainThread THEN MainFrames
                                  ELSE OtherFrames], OutCap, {})

\* ------------------------------------------------------------ input buffer

\* advance_frame_pointer without the wrap to pbegin_ (a plausible slip).
advance_frame_pointer_nowrap(p, distance) == p + distance

\* advance_frame_pointer: p + distance, wrapped to pbegin_ when it lands on
\* the end of the ring.
advance_frame_pointer(p, distance) ==
    LET q == p + distance
        remaining == TLS_INPUT_BUFFER_SIZE - q
    IN  IF remaining = 0 THEN 0 ELSE q

\* The comparison of allocate_input_frame with <= in place of < (a plausible
\* slip: "there is enough room if size == free").
FitsOrEqual(size, free) == size <= free

\* `size < free`: the strict comparison of allocate_input_frame.
Fits(size, free) == size < free

\* allocate_input_frame wrapping to the start of the ring without leaving
\* WRAPAROUND_MARKER behind.
AllocDecisionNoMarker(pinput_start, pinput_end, size) ==
    LET free == pinput_start - pinput_end
        free1 == TLS_INPUT_BUFFER_SIZE - pinput_end
        free2 == pinput_start
        claimAtEnd == [ok |-> TRUE, ptr |-> pinput_end,
                       new_end |-> advance_frame_pointer(pinput_end, size),
                       marker |-> FALSE]
        claimAtBegin == [ok |-> TRUE, ptr |-> 0,
                         new_end |-> advance_frame_pointer(0, size),
                         marker |-> FALSE]
        wait == [ok |-> FALSE, ptr |-> 0, new_end |-> pinput_end,
                 marker |-> FALSE]
    IN  IF free > 0
        THEN IF Fits(size, free) THEN claimAtEnd ELSE wait
        ELSE IF Fits(size, free1) THEN claimAtEnd
             ELSE IF Fits(size, free2) THEN claimAtBegin
             ELSE wait

\* One pass of the loop of allocate_input_frame with the values it loaded.
\* ok: a frame was claimed; ptr: the pointer returned; new_end: pinput_end_
\* afterwards; marker: the WRAPAROUND_MARKER was written at the old end.
AllocDecision(pinput_start, pinput_end, size) ==
    LET free == pinput_start - pinput_end
        free1 == TLS_INPUT_BUFFER_SIZE - pinput_end
        free2 == pinput_start
        claimAtEnd == [ok |-> TRUE, ptr |-> pinput_end,
                       new_end |-> advance_frame_pointer(pinput_end, size),
                       marker |-> FALSE]
        claimAtBegin == [ok |-> TRUE, ptr |-> 0,
                         new_end |-> advance_frame_pointer(0, size),
                         marker |-> TRUE]
        wait == [ok |-> FALSE, ptr |-> 0, new_end |-> pinput_end,
                 marker |-> FALSE]
    IN  IF free > 0
        THEN IF Fits(size, free) THEN claimAtEnd ELSE wait
        ELSE IF Fits(size, free1) THEN claimAtEnd
             ELSE IF Fits(size, free2) THEN claimAtBegin
             ELSE wait

\* The record of the values pinput_start_ of buffer b has held, when the
\* consumer stores s into it ...
SeenStore(b, s) ==
    [start_seen EXCEPT ![b] = IF @ = {} THEN {} ELSE @ \cup {s}]
\* A record that is never cut back to the latest value (a plausible slip:
\* values older than the latest allocation stay readable).
SeenKeep(p) == start_seen

\* ... and when the producer has completed an allocation.
SeenReset(p) ==
    [start_seen EXCEPT ![p] = IF @ = {} THEN {} ELSE {input_start[p]}]

\* mem[p] with word w stored at offset q (nothing outside the ring).
Store(ring, q, w) == IF q \in Positions THEN [ring EXCEPT ![q] = w] ELSE ring

\* One iteration of the while(true) of allocate_input_frame(size).  On
\* success the caller writes the dispatch pointer and payload of the frame it
\* was given; otherwise the thread goes on to wait_input_consumed.
AllocIterationWith(p, size, start) ==
    LET d == AllocDecision(start, input_end[p], size)
        marked == IF d.marker
                  THEN Store(mem[p], input_end[p], WRAPAROUND_MARKER)
                  ELSE mem[p]
    IN  IF d.ok
        THEN /\ input_end' = [input_end EXCEPT ![p] = d.new_end]
             /\ mem' = [mem EXCEPT
                          ![p] = Store(marked, d.ptr,
                                       FrameWord(nalloc[p] + 1, size))]
             /\ nalloc' = [nalloc EXCEPT ![p] = @ + 1]
             /\ start_seen' = SeenReset(p)
             /\ asize' = [asize EXCEPT ![p] = 0]
             /\ pc' = [pc EXCEPT ![p] = "idle"]
        ELSE /\ asize' = [asize EXCEPT ![p] = size]
             /\ pc' = [pc EXCEPT ![p] = "wic"]
             /\ UNCHANGED <<input_end, mem, nalloc, start_seen>>

\* The iteration when the load of pinput_start_ returns its latest value.
AllocIteration(p, size) == AllocIterationWith(p, size, input_start[p])

\* A caller enters allocate_input_frame(size): the first iteration.
Allocate(p) ==
    /\ pc[p] = "idle"
    /\ quota[p] > 0
    /\ quota' = [quota EXCEPT ![p] = @ - 1]
    /\ \E size \in FrameSizes : AllocIteration(p, size)
    /\ UNCHANGED <<input_start, commit_end, after, queueVars, eventVars,
                   consumerVars, outVars, dispatched, wraps>>

\* allocate_input_frame: the iteration after wait_input_consumed returned.
AllocRetry(p) ==
    /\ pc[p] = "alloc"
    /\ AllocIteration(p, asize[p])
    /\ UNCHANGED <<input_start, commit_end, after, queueVars, eventVars,
                   consumerVars, outVars, quota, dispatched, wraps>>

\* The same two steps when the relaxed load of pinput_start_ returns any of
\* the values it has held since the producer's latest allocation.
AllocateStale(p) ==
    /\ pc[p] = "idle"
    /\ quota[p] > 0
    /\ quota' = [quota EXCEPT ![p] = @ - 1]
    /\ \E size \in FrameSizes :
          \E start \in start_seen[p] : AllocIterationWith(p, size, start)
    /\ UNCHANGED <<input_start, commit_end, after, queueVars, eventVars,
                   consumerVars, outVars, dispatched, wraps>>

AllocRetryStale(p) ==
    /\ pc[p] = "alloc"
    /\ \E start \in start_seen[p] : AllocIterationWith(p, asize[p], start)
    /\ UNCHANGED <<input_start, commit_end, after, queueVars, eventVars,
                   consumerVars, outVars, quota, dispatched, wraps>>

\* The extent producer p is queueing: the shutdown sentinel of cleanup(), or
\* (this, pcommit_end_) of commit(); n records how many frames the extent
\* publishes.
PendingExtent(p) ==
    IF after[p] = "join"
    THEN [buf |-> NullBuffer, end |-> 0, n |-> 0]
    ELSE [buf |-> p, end |-> commit_end[p], n |-> nalloc[p]]

\* g_shared_input_queue.push(e): FALSE when the queue is full.
TryPush(p, e) ==
    IF Len(queue) < QueueCap
    THEN /\ queue' = Append(queue, e)
         /\ pushed' = IF e.buf = NullBuffer THEN pushed
                      ELSE [pushed EXCEPT ![p] = e.n]
         /\ at_sentinel' = IF e.buf = NullBuffer THEN pushed ELSE at_sentinel
         /\ pc' = [pc EXCEPT ![p] = "pushed"]
    ELSE /\ pc' = [pc EXCEPT ![p] = "slow_signal"]
         /\ UNCHANGED queueVars

\* input_buffer::commit(): pcommit_end_ := pinput_end_, then
\* queue_commit_extent({this, pcommit_end_}) tries its push; a full queue
\* sends the producer to queue_commit_extent_slow_path.  `next` is where the
\* caller of commit() continues.
DoCommit(p, next) ==
    /\ commit_end' = [commit_end EXCEPT ![p] = input_end[p]]
    /\ after' = [after EXCEPT ![p] = next]
    /\ TryPush(p, [buf |-> p, end |-> input_end[p], n |-> nalloc[p]])

\* wait_input_consumed going to its wait without the commit() (a plausible
\* slip: the check of pcommit_end_ against pinput_start_ left out).
WaitInputConsumedEnterNoCommit(p) ==
    /\ pc[p] = "wic"
    /\ pc' = [pc EXCEPT ![p] = "wic_wait"]
    /\ UNCHANGED <<ringVars, asize, after, queueVars, eventVars,
                   consumerVars, outVars, histVars>>

\* wait_input_consumed up to its wait: commit() first when nothing published
\* is left undrained.
WaitInputConsumedEnter(p) ==
    /\ pc[p] = "wic"
    /\ IF commit_end[p] = input_start[p]
       THEN DoCommit(p, "wic_wait")
       ELSE /\ pc' = [pc EXCEPT ![p] = "wic_wait"]
            /\ UNCHANGED <<commit_end, after, queueVars>>
    /\ UNCHANGED <<input_start, input_end, mem, asize, eventVars,
                   consumerVars, outVars, histVars>>

\* input_consumed_event_.wait(): returns once the event is signalled and
\* resets it; the allocation is retried.
WaitInputConsumedWake(p) ==
    /\ pc[p] = "wic_wait"
    /\ input_consumed_event[p]
    /\ input_consumed_event' = [input_consumed_event EXCEPT ![p] = FALSE]
    /\ pc' = [pc EXCEPT ![p] = "alloc"]
    /\ UNCHANGED <<ringVars, asize, after, queueVars, consumed_event,
                   full_event, consumerVars, outVars, histVars>>

\* dlog::commit() called by a producer that has frames to publish.
Commit(p) ==
    /\ pc[p] = "idle"
    /\ commit_end[p] # input_end[p]
    /\ DoCommit(p, "idle")
    /\ UNCHANGED <<input_start, input_end, mem, asize, eventVars,
                   consumerVars, outVars, histVars>>

\* ------------------------------------------------- shared queue and events

\* The producer signals the queue-nonempty event after a successful push.
PushSignal(p) ==
    /\ pc[p] = "pushed"
    /\ full_event' = TRUE
    /\ pc' = [pc EXCEPT ![p] = after[p]]
    /\ UNCHANGED <<ringVars, asize, after, queueVars, input_consumed_event,
                   consumed_event, consumerVars, outVars, histVars>>

\* queue_commit_extent_slow_path: g_shared_input_queue_full_event.signal().
SlowSignal(p) ==
    /\ pc[p] = "slow_signal"
    /\ full_event' = TRUE
    /\ pc' = [pc EXCEPT ![p] = "slow_wait"]
    /\ UNCHANGED <<ringVars, asize, after, queueVars, input_consumed_event,
                   consumed_event, consumerVars, outVars, histVars>>

\* queue_commit_extent_slow_path: g_shared_input_consumed_event.wait().
SlowWait(p) ==
    /\ pc[p] = "slow_wait"
    /\ consumed_event
    /\ consumed_event' = FALSE
    /\ pc' = [pc EXCEPT ![p] = "slow_push"]
    /\ UNCHANGED <<ringVars, asize, after, queueVars, input_consumed_event,
                   full_event, consumerVars, outVars, histVars>>

\* queue_commit_extent_slow_path: the push of the loop condition; the slow
\* path returns to the caller of commit() without a further signal.
SlowPush(p) ==
    /\ pc[p] = "slow_push"
    /\ IF Len(queue) < QueueCap
       THEN /\ queue' = Append(queue, PendingExtent(p))
            /\ pushed' = IF PendingExtent(p).buf = NullBuffer THEN pushed
                         ELSE [pushed EXCEPT ![p] = PendingExtent(p).n]
            /\ at_sentinel' = IF PendingExtent(p).buf = NullBuffer
                              THEN pushed ELSE at_sentinel
            /\ pc' = [pc EXCEPT ![p] = after[p]]
       ELSE /\ pc' = [pc EXCEPT ![p] = "slow_signal"]
            /\ UNCHANGED queueVars
    /\ UNCHANGED <<ringVars, asize, after, eventVars, consumerVars, outVars,
                   histVars>>

\* ----------------------------------------------------------------- cleanup

\* cleanup() going straight to the sentinel, without commit() (a plausible
\* slip).
CleanupWithoutCommit ==
    /\ pc[MainThread] = "idle"
    /\ pc' = [pc EXCEPT ![MainThread] = "sentinel"]
    /\ UNCHANGED <<ringVars, asize, after, queueVars, eventVars,
                   consumerVars, outVars, histVars>>

\* dlog::cleanup(): commit() of the calling thread.
CleanupCommit ==
    /\ pc[MainThread] = "idle"
    /\ DoCommit(MainThread, "sentinel")
    /\ UNCHANGED <<input_start, input_end, mem, asize, eventVars,
                   consumerVars, outVars, histVars>>

\* dlog::cleanup(): queue_commit_extent({nullptr, 0}).
CleanupSentinel ==
    /\ pc[MainThread] = "sentinel"
    /\ after' = [after EXCEPT ![MainThread] = "join"]
    /\ TryPush(MainThread, [buf |-> NullBuffer, end |-> 0, n |-> 0])
    /\ UNCHANGED <<ringVars, asize, eventVars, consumerVars, outVars, histVars>>

\* dlog::cleanup(): g_output_thread.join() returns once output_worker has
\* returned; the output buffer is then released.
CleanupJoin ==
    /\ pc[MainThread] = "join"
    /\ cpc = "exited"
    /\ pc' = [pc EXCEPT ![MainThread] = "done"]
    /\ UNCHANGED <<ringVars, asize, after, queueVars, eventVars,
                   consumerVars, outVars, histVars>>

\* ---------------------------------------------------------- ~input_buffer

\* A logging thread other than the main thread ends: the destructor of its
\* thread-local input_buffer starts with commit().
DtorCommit(p) ==
    /\ p # MainThread
    /\ pc[p] = "idle"
    /\ DoCommit(p, "dtor_test")
    /\ UNCHANGED <<input_start, input_end, mem, asize, eventVars,
                   consumerVars, outVars, histVars>>

\* ~input_buffer releasing the ring without the loop that waits for the
\* consumer (a plausible slip).
DtorTestWithoutDrain(p) ==
    /\ pc[p] = "dtor_test"
    /\ pc' = [pc EXCEPT ![p] = "freed"]
    /\ UNCHANGED <<ringVars, asize, after, queueVars, eventVars,
                   consumerVars, outVars, histVars>>

\* ~input_buffer: the test of its while loop; free(pbegin_) when the ring
\* is drained, wait_input_consumed() otherwise.
DtorTest(p) ==
    /\ pc[p] = "dtor_test"
    /\ pc' = [pc EXCEPT ![p] = IF input_start[p] # input_end[p]
                                THEN "dtor_wic" ELSE "freed"]
    /\ UNCHANGED <<ringVars, asize, after, queueVars, eventVars,
                   consumerVars, outVars, histVars>>

\* ~input_buffer: wait_input_consumed() up to its wait ...
DtorWaitEnter(p) ==
    /\ pc[p] = "dtor_wic"
    /\ IF commit_end[p] = input_start[p]
       THEN DoCommit(p, "dtor_wait")
       ELSE /\ pc' = [pc EXCEPT ![p] = "dtor_wait"]
            /\ UNCHANGED <<commit_end, after, queueVars>>
    /\ UNCHANGED <<input_start, input_end, mem, asize, eventVars,
                   consumerVars, outVars, histVars>>

\* ... and its return, back to the test of the loop.
DtorWaitWake(p) ==
    /\ pc[p] = "dtor_wait"
    /\ input_consumed_event[p]
    /\ input_consumed_event' = [input_consumed_event EXCEPT ![p] = FALSE]
    /\ pc' = [pc EXCEPT ![p] = "dtor_test"]
    /\ UNCHANGED <<ringVars, asize, after, queueVars, consumed_event,
                   full_event, consumerVars, outVars, histVars>>

\* ----------------------------------------------------------- output buffer

\* Bytes the dispatch function of a frame of `size` bytes formats into the
\* output buffer.
OutLen(size) == size \div FRAME_ALIGNMENT

\* The ids of producer p's frames among the entries of an output buffer.
IdsOf(p, buf) ==
    LET own == SelectSeq(buf, LAMBDA e : e[1] = p)
    IN  [i \in 1 .. Len(own) |-> own[i][2]]

\* output_buffer::flush(): pcommit_end_ and the buffer's contents after the
\* writer, called with the whole buffer, has returned r.
Flushed(r) == [used |-> 0, buf |-> << >>]

\* output_buffer::reserve(size) flushes when the free space is short ...
ReserveFlushes(size) == out_capacity - out_used < size
\* ... and, after that flush, throws std::bad_alloc when the buffer itself is
\* too small.
ReserveThrows(size) == out_capacity < size

\* pwriter_->write(pbuffer_, pcommit_end_ - pbuffer_) returning r.
WriterCalled(r) ==
    /\ handed' = [p \in Producers |-> handed[p] \o IdsOf(p, out_buf)]
    /\ writer_result' = r
    /\ gave_up' = (gave_up \/ r = "ERROR_GIVE_UP")

\* A consumer step that does not call the writer.
WriterNotCalled ==
    /\ writer_result' = "NONE"
    /\ UNCHANGED <<gave_up, handed>>

\* ---------------------------------------------------------------- consumer

Min(a, b) == IF a < b THEN a ELSE b

\* The back-off without the std::min (a plausible slip).
NextWaitTimeUncapped(w) == IF w = 0 THEN 1 ELSE 2 * w

\* The back-off of output_worker after a failed pop.
NextWaitTime(w) == Min(IF w = 0 THEN 1 ELSE 2 * w, BackoffCapMs)

\* output_worker: g_shared_input_queue.pop(ce).
CPop ==
    /\ cpc = "pop"
    /\ IF queue # << >>
       THEN /\ ce' = Head(queue)
            /\ queue' = Tail(queue)
            /\ wait_time_ms' = 0
            /\ cpc' = "popped"
       ELSE /\ cpc' = "wait"
            /\ UNCHANGED <<ce, queue, wait_time_ms>>
    /\ WriterNotCalled
    /\ UNCHANGED out_capacity
    /\ UNCHANGED <<ringVars, prodVars, pushed, at_sentinel, eventVars,
                   out_used, out_buf, histVars>>

\* output_worker: g_shared_input_queue_full_event.wait(wait_time_ms) returns
\* because the event was signalled (and resets it) ...
CWaitSignalled ==
    /\ cpc = "wait"
    /\ full_event
    /\ full_event' = FALSE
    /\ wait_time_ms' = NextWaitTime(wait_time_ms)
    /\ cpc' = "pop"
    /\ WriterNotCalled
    /\ UNCHANGED out_capacity
    /\ UNCHANGED <<ringVars, prodVars, queueVars, input_consumed_event,
                   consumed_event, ce, out_used, out_buf, histVars>>

\* ... or because a non-zero timeout ran out.
CWaitTimeout ==
    /\ cpc = "wait"
    /\ wait_time_ms # 0
    /\ ~full_event
    /\ wait_time_ms' = NextWaitTime(wait_time_ms)
    /\ cpc' = "pop"
    /\ WriterNotCalled
    /\ UNCHANGED out_capacity
    /\ UNCHANGED <<ringVars, prodVars, queueVars, eventVars, ce, out_used,
                   out_buf, histVars>>

\* The walk of an extent ending at the buffer's pinput_end_ instead of the
\* extent's pcommit_end (a plausible slip).
WalkEndAtInputEnd == input_end[ce.buf]

\* output_worker: the position at which the walk of the popped extent ends.
WalkEnd == ce.end

\* discard_input_frame advancing by one alignment unit whatever size the
\* dispatch function returned (a dispatch function that does not return the
\* size its frame was allocated with).
DiscardedStartOneSlot(p, size) == advance_frame_pointer(p, FRAME_ALIGNMENT)

\* discard_input_frame storing the pointer it loaded instead of the advanced
\* one (a plausible slip).
DiscardedStartStale(p, size) == p

\* discard_input_frame(size): the value stored to pinput_start_.
DiscardedStart(p, size) == advance_frame_pointer(p, size)

\* The dispatch word at the consumer's read position.
WordAt(b) ==
    IF input_start[b] \in Positions THEN mem[b][input_start[b]] ELSE Garbage

\* output_worker: the test of the while loop over the popped extent; once
\* the read position has reached the end of the extent,
\* g_poutput_buffer->flush() and back to the pop.
WalkOrFlush ==
    IF input_start[ce.buf] = WalkEnd
    THEN /\ \E r \in WriterResults :
              /\ WriterCalled(r)
              /\ out_used' = Flushed(r).used
              /\ out_buf' = Flushed(r).buf
         /\ cpc' = "pop"
    ELSE /\ cpc' = "walk"
         /\ WriterNotCalled
         /\ UNCHANGED <<out_used, out_buf>>

\* output_worker going on after the pop without
\* g_shared_input_consumed_event.signal() (a plausible slip).
CSignalConsumedWithoutSignal ==
    /\ cpc = "popped"
    /\ IF ce.buf = NullBuffer
       THEN /\ cpc' = "exited"
            /\ WriterNotCalled
            /\ UNCHANGED <<out_used, out_buf>>
       ELSE WalkOrFlush
    /\ UNCHANGED out_capacity
    /\ UNCHANGED <<ringVars, prodVars, queueVars, eventVars, ce,
                   wait_time_ms, histVars>>

\* output_worker: g_shared_input_consumed_event.signal(), then the test for
\* the shutdown request, then the start of the walk.
CSignalConsumed ==
    /\ cpc = "popped"
    /\ consumed_event' = TRUE
    /\ IF ce.buf = NullBuffer
       THEN /\ cpc' = "exited"
            /\ WriterNotCalled
            /\ UNCHANGED <<out_used, out_buf>>
       ELSE WalkOrFlush
    /\ UNCHANGED out_capacity
    /\ UNCHANGED <<ringVars, prodVars, queueVars, input_consumed_event,
                   full_event, ce, wait_time_ms, histVars>>

\* output_worker: the read position holds WRAPAROUND_MARKER: wraparound().
CWraparound ==
    /\ cpc = "walk"
    /\ WordAt(ce.buf) = WRAPAROUND_MARKER
    /\ input_start' = [input_start EXCEPT ![ce.buf] = 0]
    /\ mem' = [mem EXCEPT ![ce.buf] = Store(@, input_start[ce.buf], Garbage)]
    /\ wraps' = [wraps EXCEPT ![ce.buf] = @ + 1]
    /\ start_seen' = SeenStore(ce.buf, 0)
    /\ cpc' = "wrapped"
    /\ WriterNotCalled
    /\ UNCHANGED out_capacity
    /\ UNCHANGED <<input_end, commit_end, prodVars, queueVars, eventVars, ce,
                   wait_time_ms, out_used, out_buf, quota, nalloc,
                   dispatched>>

\* output_worker: (*pdispatch)(output buffer, pinput_start) formats the frame
\* (reserve, copy, commit), then discard_input_frame(frame_size) stores the
\* advanced pinput_start_.  Calling through a word that is no dispatch pointer
\* is undefined ("crashed": the consumer did something no frame asked for);
\* an output larger than the output buffer makes reserve flush and then throw
\* std::bad_alloc, which leaves output_worker ("terminated").
CDispatch ==
    /\ \/ cpc = "walk" /\ WordAt(ce.buf) # WRAPAROUND_MARKER
       \/ cpc = "wrapped"
    /\ LET b == ce.buf
           w == WordAt(b)
           n == OutLen(w.size)
           discard ==
               /\ dispatched' = [dispatched EXCEPT ![b] = Append(@, w.id)]
               /\ input_start' = [input_start EXCEPT
                                    ![b] = DiscardedStart(@, w.size)]
               /\ start_seen' =
                     SeenStore(b, DiscardedStart(input_start[b], w.size))
               /\ mem' = IF DiscardedStart(input_start[b], w.size)
                              # input_start[b]
                         THEN [mem EXCEPT
                                 ![b] = Store(@, input_start[b], Garbage)]
                         ELSE mem
               /\ cpc' = "discarded"
       IN  IF w.kind # "frame"
           THEN /\ cpc' = "crashed"
                /\ WriterNotCalled
                /\ UNCHANGED <<input_start, mem, dispatched, start_seen,
                               out_used, out_buf>>
           ELSE IF ReserveFlushes(n)
           THEN \E r \in WriterResults :
                  /\ WriterCalled(r)
                  /\ IF ReserveThrows(n)
                     THEN /\ out_used' = Flushed(r).used
                          /\ out_buf' = Flushed(r).buf
                          /\ cpc' = "terminated"
                          /\ UNCHANGED <<input_start, mem, dispatched,
                                         start_seen>>
                     ELSE /\ out_used' = Flushed(r).used + n
                          /\ out_buf' = Append(Flushed(r).buf, <<b, w.id>>)
                          /\ discard
           ELSE /\ out_used' = out_used + n
                /\ out_buf' = Append(out_buf, <<b, w.id>>)
                /\ WriterNotCalled
                /\ discard
    /\ UNCHANGED out_capacity
    /\ UNCHANGED <<input_end, commit_end, prodVars, queueVars, eventVars, ce,
                   wait_time_ms, quota, nalloc, wraps>>

\* discard_input_frame: signal_input_consumed(), then the loop test.
CSignalInputConsumed ==
    /\ cpc = "discarded"
    /\ input_consumed_event' = [input_consumed_event EXCEPT ![ce.buf] = TRUE]
    /\ WalkOrFlush
    /\ UNCHANGED out_capacity
    /\ UNCHANGED <<ringVars, prodVars, queueVars, consumed_event, full_event,
                   ce, wait_time_ms, histVars>>

\* output_worker is about to use an input_buffer whose destructor has run
\* (input_start(), the dispatch word, wraparound(), discard_input_frame() or
\* signal_input_consumed()).  The behaviour is undefined: the released
\* memory may still read as it was, and the consumer's other actions go on
\* as if it did, or the consumer does something no frame asked for.
CUseFreed ==
    /\ cpc \in {"popped", "walk", "wrapped", "discarded"}
    /\ ce.buf # NullBuffer
    /\ pc[ce.buf] = "freed"
    /\ consumed_event' = (consumed_event \/ cpc = "popped")
    /\ cpc' = "crashed"
    /\ WriterNotCalled
    /\ UNCHANGED out_capacity
    /\ UNCHANGED <<ringVars, prodVars, queueVars, input_consumed_event,
                   full_event, ce, wait_time_ms, out_used, out_buf, histVars>>

\* ----------------------------------------------------------- specification

ProducerStep(p) ==
    \/ Allocate(p)
    \/ AllocRetry(p)
    \/ WaitInputConsumedEnter(p)
    \/ WaitInputConsumedWake(p)
    \/ Commit(p)
    \/ PushSignal(p)
    \/ SlowSignal(p)
    \/ SlowWait(p)
    \/ SlowPush(p)

ConsumerStep ==
    \/ CPop
    \/ CWaitSignalled
    \/ CWaitTimeout
    \/ CSignalConsumed
    \/ CWraparound
    \/ CDispatch
    \/ CSignalInputConsumed

Next ==
    \/ \E p \in Producers : ProducerStep(p)
    \/ CleanupCommit
    \/ CleanupSentinel
    \/ CleanupJoin
    \/ ConsumerStep

Spec == Init /\ [][Next]_vars

SpecTwo == InitTwo /\ [][Next]_vars

\* Runs in which initialize() was given an output buffer smaller than the
\* largest frame's output.
InitSmallOut ==
    InitWith([p \in Producers |-> IF p = MainThread THEN MaxFrames ELSE 0],
             OutCap - 1, {})

SpecSmallOut == InitSmallOut /\ [][Next]_vars

\* Runs in which the loads of pinput_start_ in allocate_input_frame may
\* return stale values.
InitRelaxed ==
    InitWith([p \in Producers |-> IF p = MainThread THEN MaxFrames ELSE 0],
             OutCap, {0})

NextRelaxed ==
    \/ \E p \in Producers : ProducerStep(p)
    \/ \E p \in Producers : AllocateStale(p)
    \/ \E p \in Producers : AllocRetryStale(p)
    \/ CleanupCommit
    \/ CleanupSentinel
    \/ CleanupJoin
    \/ ConsumerStep

SpecRelaxed == InitRelaxed /\ [][NextRelaxed]_vars

\* Runs in which the second thread logs and then ends, destroying its input
\* buffer, while the main thread only shuts the library down.
ThreadExitStep(p) ==
    \/ DtorCommit(p)
    \/ DtorTest(p)
    \/ DtorWaitEnter(p)
    \/ DtorWaitWake(p)

NextExit ==
    \/ \E p \in Producers : ProducerStep(p)
    \/ \E p \in Producers : ThreadExitStep(p)
    \/ CleanupCommit
    \/ CleanupSentinel
    \/ CleanupJoin
    \/ ConsumerStep
    \/ CUseFreed

InitExit ==
    InitWith([p \in Producers |-> IF p = MainThread THEN 0 ELSE MainFrames],
             OutCap, {})

SpecExit == InitExit /\ [][NextExit]_vars

\* ------------------------------------------------------------------ claims

\* s is <<1, 2, ..., Len(s)>>: the frames of one producer in the order it
\* allocated and committed them, none missing, none twice.
InCommitOrder(s) == \A i \in 1 .. Len(s) : s[i] = i

StrictlyIncreasing(s) ==
    \A i, j \in 1 .. Len(s) : i < j => s[i] < s[j]

\* Distance from a to b walking forward round the ring.
Dist(a, b) == (b - a) % TLS_INPUT_BUFFER_SIZE

\* The consumer has processed every extent pushed so far.
ConsumerCaughtUp == queue = << >> /\ cpc \in {"pop", "wait"}

\* C1: per-producer order.  Whenever a producer committed frame A before
\* frame B, the consumer dispatches A before B and hands A's bytes to the
\* writer before B's: the frames dispatched, and the frames handed to the
\* writer, appear in strictly increasing order of commit for every producer.
C1_PerProducerOrder ==
    \A p \in Producers :
        /\ StrictlyIncreasing(dispatched[p])
        /\ StrictlyIncreasing(handed[p])

\* Both threads have had frames handed to the writer, and the main thread's
\* two frames lie on opposite sides of a wraparound the consumer traversed.
C1_Witness ==
    /\ handed[MainThread] = <<1, 2>>
    /\ wraps[MainThread] = 1
    /\ handed[2] = <<1>>

\* C2: round trip.  The frames the consumer has dispatched for a producer
\* are always the first frames it committed, each once and in order, and the
\* same holds for the frames passed to the writer; the consumer never
\* dispatches a word that is not a published frame (a marker, a stale or an
\* unwritten slot); and once the consumer has processed every extent pushed,
\* the frames dispatched and the frames passed to the writer are exactly the
\* frames committed by those extents.
C2_RoundTrip ==
    /\ cpc # "crashed"
    /\ \A p \in Producers :
        /\ InCommitOrder(dispatched[p])
        /\ InCommitOrder(handed[p])
        /\ Len(handed[p]) <= Len(dispatched[p])
        /\ Len(dispatched[p]) <= pushed[p]
        /\ ConsumerCaughtUp =>
              /\ Len(dispatched[p]) = pushed[p]
              /\ handed[p] = dispatched[p]

\* The consumer has caught up after a run long enough to make the ring wrap
\* twice: every frame of the run was committed, dispatched and passed on.
C2_Witness ==
    /\ ConsumerCaughtUp
    /\ pushed[MainThread] = MaxFrames
    /\ handed[MainThread] = [i \in 1 .. MaxFrames |-> i]
    /\ wraps[MainThread] >= 2

\* The consumer is inside the loop over a popped extent, about to read the
\* dispatch word at its read position.
ConsumerReading == cpc \in {"walk", "wrapped"}

\* C3: frame atomicity.  Every frame the consumer reads or has dispatched was
\* published by a commit extent it has popped: a frame it is about to
\* dispatch was allocated before the popped extent was committed and lies
\* wholly between the read position and the extent's end, going round the
\* ring; and no frame allocated after the latest push has been dispatched.
C3_FrameAtomicity ==
    /\ \A p \in Producers :
          \A i \in 1 .. Len(dispatched[p]) :
              /\ dispatched[p][i] <= pushed[p]
              /\ cpc \notin {"pop", "wait"} /\ ce.buf = p
                    => dispatched[p][i] <= ce.n
    /\ ConsumerReading /\ WordAt(ce.buf).kind = "frame" =>
          /\ WordAt(ce.buf).id <= ce.n
          /\ WordAt(ce.buf).size <= Dist(input_start[ce.buf], ce.end)

\* The consumer has dispatched the last frame of the extent it popped and
\* stopped at the extent's end while a frame allocated after that commit,
\* not yet published, starts right there.
C3_Witness ==
    /\ cpc = "discarded"
    /\ ce.buf = MainThread
    /\ input_start[MainThread] = ce.end
    /\ mem[MainThread][ce.end].kind = "frame"
    /\ mem[MainThread][ce.end].id > pushed[MainThread]

\* The contiguous free space a successful pass of allocate_input_frame
\* claimed its frame from: the head of the ring, the gap between the cursors,
\* or the tail.
ClaimedFree(pinput_start, pinput_end, d) ==
    IF d.marker THEN pinput_start
    ELSE IF pinput_start - pinput_end > 0 THEN pinput_start - pinput_end
    ELSE TLS_INPUT_BUFFER_SIZE - pinput_end

\* C4: no empty/full ambiguity.  In every reachable state of an input buffer
\* input_start = input_end only when every allocated frame has been
\* dispatched and discarded (no frame or marker is left in the ring); and
\* from every reachable state, for every size, allocate_input_frame accepts
\* only when size is strictly less than the free space it claims and never
\* moves input_end onto input_start.
C4_NoEmptyFullAmbiguity ==
    \A p \in Producers :
        /\ input_start[p] = input_end[p] =>
              /\ Len(dispatched[p]) = nalloc[p]
              /\ \A q \in Positions : mem[p][q] = Garbage
        /\ \A size \in FrameSizes :
              LET d == AllocDecision(input_start[p], input_end[p], size)
              IN  d.ok =>
                    /\ d.new_end # input_start[p]
                    /\ size < ClaimedFree(input_start[p], input_end[p], d)

\* allocate_input_frame has refused a frame exactly as large as the gap
\* between input_end and input_start, after the ring had wrapped: the
\* producer is blocked and the cursors are still apart.
C4_Witness ==
    /\ pc[MainThread] \in {"wic", "wic_wait"}
    /\ input_start[MainThread] - input_end[MainThread] = asize[MainThread]
    /\ asize[MainThread] > 0
    /\ nalloc[MainThread] > Len(dispatched[MainThread])

\* C5: circular order.  In every reachable state of every input buffer,
\* walking forward round the ring from input_start one meets commit_end no
\* later than input_end.
C5_CircularOrder ==
    \A p \in Producers :
        Dist(input_start[p], commit_end[p]) <= Dist(input_start[p], input_end[p])

\* The consumer has just executed wraparound(): input_start is back at the
\* base of the ring, with published frames ahead of it and an unpublished
\* frame ahead of those.
C5_Witness ==
    /\ cpc = "wrapped"
    /\ input_start[MainThread] = 0
    /\ 0 < commit_end[MainThread]
    /\ commit_end[MainThread] < input_end[MainThread]

\* C6: aligned, in-range positions.  In every reachable state input_start,
\* input_end and commit_end of every buffer are multiples of FRAME_ALIGNMENT
\* below the end of the ring; and advance_frame_pointer, given an aligned
\* position and an aligned distance that stay within the ring, returns an
\* aligned position below the end of the ring, the base of the ring when the
\* sum lands on the end.
C6_AlignedInRange ==
    /\ \A p \in Producers :
          \A c \in {input_start[p], input_end[p], commit_end[p]} :
              /\ c % FRAME_ALIGNMENT = 0
              /\ 0 <= c
              /\ c < TLS_INPUT_BUFFER_SIZE
    /\ \A q \in Positions :
          \A size \in FrameSizes :
              q + size <= TLS_INPUT_BUFFER_SIZE =>
                 /\ advance_frame_pointer(q, size) \in Positions
                 /\ q + size = TLS_INPUT_BUFFER_SIZE
                       => advance_frame_pointer(q, size) = 0

\* The producer has wrapped and committed: a WRAPAROUND_MARKER sits in the
\* tail of the ring, input_end and commit_end are together in the head, below
\* input_start, and the consumer is still in the tail.
C6_Witness ==
    /\ \E q \in Positions :
          /\ mem[MainThread][q] = WRAPAROUND_MARKER
          /\ input_start[MainThread] <= q
    /\ input_end[MainThread] < input_start[MainThread]
    /\ commit_end[MainThread] = input_end[MainThread]
    /\ 0 < input_end[MainThread]

\* C7: drain on shutdown.  cleanup() enqueues the sentinel only after every
\* frame of the calling thread has been committed and pushed; the consumer
\* exits only on popping the sentinel; and when cleanup() has returned, every
\* frame published by an extent pushed before the sentinel, by any producer,
\* has been dispatched and passed to the writer, in order, and the output
\* buffer holds no unflushed bytes.
C7_DrainOnShutdown ==
    /\ at_sentinel[MainThread] >= 0 =>
          at_sentinel[MainThread] = nalloc[MainThread]
    /\ cpc = "exited" => ce.buf = NullBuffer /\ at_sentinel[MainThread] >= 0
    /\ pc[MainThread] = "done" =>
          /\ cpc = "exited"
          /\ out_used = 0
          /\ out_buf = << >>
          /\ \A p \in Producers :
                /\ Len(dispatched[p]) >= at_sentinel[p]
                /\ Len(handed[p]) >= at_sentinel[p]
                /\ InCommitOrder(handed[p])

\* cleanup() has returned after both threads logged: the sentinel followed
\* the extents of every frame of the run, and all of them reached the writer.
C7_Witness ==
    /\ pc[MainThread] = "done"
    /\ at_sentinel[MainThread] = MainFrames
    /\ at_sentinel[2] = OtherFrames
    /\ Len(handed[MainThread]) = MainFrames
    /\ Len(handed[2]) = OtherFrames

\* Producer p waits in wait_input_consumed for an event nobody will signal:
\* the event is clear, the consumer has nothing of p's left to discard
\* (nothing published lies ahead of input_start, in the ring or in an extent
\* queued or popped) and is not on its way to signal_input_consumed for p.
BlockedForever(p) ==
    /\ pc[p] = "wic_wait"
    /\ ~input_consumed_event[p]
    /\ input_start[p] = commit_end[p]
    /\ \A i \in 1 .. Len(queue) :
          queue[i].buf = p => queue[i].end = input_start[p]
    /\ ~(cpc \in {"walk", "wrapped", "discarded"} /\ ce.buf = p)
    /\ ~(cpc = "popped" /\ ce.buf = p /\ ce.end # input_start[p])

\* C8: allocation always completes.  From every reachable ring state and
\* for every admissible size, a producer that allocate_input_frame has sent
\* to wait_input_consumed is never left waiting for a wake-up that cannot
\* come: ring-full is recoverable, the producer never blocks forever.
C8_AllocationCompletes == \A p \in Producers : ~BlockedForever(p)

\* Once a producer is blocked in that way no step of any thread releases it.
BlockedForeverIsPermanent ==
    [][\A p \in Producers : BlockedForever(p) => BlockedForever(p)']_vars

\* The consumer's step called the writer (every consumer step moves cpc, no
\* other step does).
WriterInvoked == cpc' # cpc /\ writer_result' # "NONE"

IsPrefix(s, t) == Len(s) <= Len(t) /\ SubSeq(t, 1, Len(s)) = s

\* C9: writer back-pressure loses nothing.  When the writer returns
\* ERROR_TRY_LATER from a flush, the bytes of that flush are retained in the
\* output buffer: commit_end is not reset, and what the buffer held is still
\* at its front after the step.
C9_TryLaterRetainsBytes ==
    [][WriterInvoked /\ writer_result' = "ERROR_TRY_LATER"
          => out_used' >= out_used /\ IsPrefix(out_buf, out_buf')]_vars

\* C10: permanent writer failure stops forwarding.  Once the writer has
\* returned ERROR_GIVE_UP, no later step of the consumer invokes the writer.
C10_GiveUpStopsForwarding == [][gave_up => ~WriterInvoked]_vars

\* The consumer sits in the indefinite wait (timeout 0) on the queue-nonempty
\* event and the event is not signalled.
ConsumerAsleep == cpc = "wait" /\ wait_time_ms = 0 /\ ~full_event

\* Producer p is on its way to signal the queue-nonempty event without
\* starting a new commit: after a push on the fast path, at the head of the
\* slow path's loop, or about to retry a push that the full queue will refuse.
SignalAhead(p) ==
    \/ pc[p] \in {"pushed", "slow_signal"}
    \/ /\ Len(queue) = QueueCap
       /\ \/ pc[p] = "slow_push"
          \/ pc[p] = "slow_wait" /\ consumed_event

\* Thread p has nothing left to log or publish.
Finished(p) ==
    pc[p] = "idle" /\ quota[p] = 0 /\ commit_end[p] = input_end[p]

\* cleanup() waits in join() for a consumer that nothing will wake.
ShutdownHangs ==
    /\ pc[MainThread] = "join"
    /\ ConsumerAsleep
    /\ \A p \in Producers \ {MainThread} : Finished(p)

\* C11: shutdown terminates whatever the writer does.  cleanup() is never
\* left in join() with the consumer unable to reach the sentinel: once the
\* sentinel is enqueued the consumer pops it, exits, and the join completes.
C11_ShutdownTerminates == ~ShutdownHangs

\* Once cleanup() hangs in that way no step of any thread releases it.
ShutdownHangIsPermanent == [][ShutdownHangs => ShutdownHangs']_vars

\* C14: no lost wakeup on the queue-nonempty event.  The consumer is never in
\* its indefinite wait while the queue holds an extent and no producer is on
\* its way to signal: every extent pushed, by the fast path or by the retry
\* of the slow path, is popped without a later commit of any producer.
C14_NoLostWakeup ==
    ~(/\ ConsumerAsleep
      /\ queue # << >>
      /\ \A p \in Producers : ~SignalAhead(p))

\* A pop, and with it a signal of the consumed event, lies ahead: an extent
\* is queued or has just been popped, or a producer released from the slow
\* path's wait is about to retry its push.
PopAhead ==
    \/ queue # << >>
    \/ cpc = "popped"
    \/ \E q \in Producers : pc[q] = "slow_push"

\* Whenever a producer waits in queue_commit_extent_slow_path with the
\* consumed event not signalled, an extent is queued, has just been popped,
\* or is about to be pushed: a pop is ahead for a consumer that is awake.
SlowWaiterHasPopAhead ==
    \A p \in Producers :
        pc[p] = "slow_wait" /\ ~consumed_event => PopAhead

\* Producer p waits in queue_commit_extent_slow_path for a consumed event
\* that is not signalled, while the consumer, neither shut down nor ended,
\* sleeps in its indefinite wait with no signal pending, and no other thread
\* has anything left to do that would signal it.
SlowPathStuck(p) ==
    /\ pc[p] = "slow_wait"
    /\ ~consumed_event
    /\ ConsumerAsleep
    /\ \A q \in Producers \ {p} :
          pc[q] \in {"join", "slow_wait"} \/ (q # MainThread /\ Finished(q))

\* C15: commit on a full shared queue completes for every producer.  With
\* the consumer running (not shut down), no producer is left waiting in the
\* slow path for a consumed signal that can never come.
C15_SlowPathCompletes == \A p \in Producers : ~SlowPathStuck(p)

\* A producer stuck in the slow path stays stuck.
SlowPathStuckIsPermanent ==
    [][\A p \in Producers : SlowPathStuck(p) => SlowPathStuck(p)']_vars

BackoffSchedule == {0, 1, 2, 4, 8, 16, 32, 64, 128, 256, 512, 1000}

\* C18: consumer back-off schedule.  The timeout is 0 on the first failed pop
\* after a successful one, then 1, then doubles on every further failed pop
\* up to 512 and is 1000 from then on, never more; it returns to 0 only with
\* a successful pop.
C18_BackoffSchedule ==
    [][/\ wait_time_ms' \in BackoffSchedule
       /\ cpc = "wait" /\ cpc' = "pop" =>
             wait_time_ms' = IF wait_time_ms = 0 THEN 1
                             ELSE IF 2 * wait_time_ms > 1000 THEN 1000
                             ELSE 2 * wait_time_ms
       /\ cpc = "pop" /\ cpc' = "wait" => wait_time_ms' = wait_time_ms
       /\ cpc = "pop" /\ cpc' = "popped" => wait_time_ms' = 0
       /\ wait_time_ms # 0 /\ wait_time_ms' = 0 =>
             cpc = "pop" /\ cpc' = "popped"]_vars

\* The consumer waits with the capped timeout: the queue stayed empty for
\* eleven pops in a row.
C18_Witness == cpc = "wait" /\ wait_time_ms = BackoffCapMs

\* The bytes of the frames stored in the ring of p that the consumer has not
\* discarded.
FrameBytes(p) ==
    UNION {{q + k * FRAME_ALIGNMENT :
               k \in 0 .. ((mem[p][q].size \div FRAME_ALIGNMENT) - 1)} :
           q \in {r \in Positions : mem[p][r].kind = "frame"}}

\* C13: frames are never split across the ring boundary.  Every frame in a
\* ring, and every pointer allocate_input_frame(size) can return, satisfies
\* p + size <= CAP; when the allocator returns the start of the ring because
\* the frame does not fit in the tail it writes WRAPAROUND_MARKER at
\* input_end, a slot that holds no byte of an undiscarded frame; a marker in
\* the ring is followed by a frame at the start of the ring; and the
\* consumer, reading short of the end of its extent, finds a frame or the
\* marker, and after the marker a frame at the start of the ring.
C13_FramesNeverSplit ==
    /\ \A p \in Producers :
          /\ \A q \in Positions :
                /\ mem[p][q].kind = "frame" =>
                      q + mem[p][q].size <= TLS_INPUT_BUFFER_SIZE
                /\ mem[p][q].kind = "marker" =>
                      /\ q # 0
                      /\ q \notin FrameBytes(p)
                      /\ mem[p][0].kind = "frame"
          /\ \A size \in FrameSizes :
                LET d == AllocDecision(input_start[p], input_end[p], size)
                IN  d.ok =>
                      /\ d.ptr + size <= TLS_INPUT_BUFFER_SIZE
                      /\ d.ptr # input_end[p] =>
                            /\ d.ptr = 0
                            /\ d.marker
                            /\ ~(size < TLS_INPUT_BUFFER_SIZE - input_end[p])
                      /\ d.marker =>
                            /\ input_end[p] \in Positions
                            /\ input_end[p] \notin FrameBytes(p)
    /\ cpc = "walk" /\ input_start[ce.buf] # ce.end =>
          WordAt(ce.buf).kind \in {"frame", "marker"}
    /\ cpc = "wrapped" =>
          /\ input_start[ce.buf] = 0
          /\ mem[ce.buf][0].kind = "frame"

\* The consumer stands at a skipped tail, short of the end of its extent:
\* the word there is the marker and the next frame is at the start of the
\* ring.
C13_Witness ==
    /\ cpc = "walk"
    /\ input_start[ce.buf] # ce.end
    /\ input_start[ce.buf] # 0
    /\ WordAt(ce.buf) = WRAPAROUND_MARKER
    /\ mem[ce.buf][0].kind = "frame"

\* C12: output-buffer exhaustion is confined to one record.  When reserve(n)
\* fails because n exceeds the capacity of the output buffer, the consumer
\* keeps running: the std::bad_alloc never ends output_worker with the
\* frame undiscarded.
C12_ExhaustionConfined == cpc # "terminated"

\* Once the exception has left output_worker nothing is dispatched or
\* discarded any more, whatever is committed afterwards.
TerminatedIsPermanent ==
    [][cpc = "terminated" =>
          /\ cpc' = "terminated"
          /\ dispatched' = dispatched
          /\ input_start' = input_start
          /\ handed' = handed]_vars

\* The bytes of the range [q, q + size).
RangeBytes(q, size) ==
    {q + k * FRAME_ALIGNMENT : k \in 0 .. ((size \div FRAME_ALIGNMENT) - 1)}

\* The positions of the frames stored in the ring of p.
FrameStarts(p) == {q \in Positions : mem[p][q].kind = "frame"}

\* C17: allocation never overlaps undrained data, even on a stale read of
\* input_start.  For every value pinput_start_ has held since the producer's
\* latest allocation and every size, a pass of allocate_input_frame that
\* succeeds on that value returns a range inside the ring that is disjoint
\* from every undiscarded frame, writes its marker, if any, outside every
\* undiscarded frame and outside the range it returns, and would have
\* succeeded on the latest value as well; and in runs whose allocations are
\* decided on such values no frame in the ring is overwritten or overlaps
\* another and the consumer never reads a word that is no frame or marker.
C17_StaleStartIsSafe ==
    /\ \A p \in Producers :
          /\ \A start \in start_seen[p] \cup {input_start[p]} :
                \A size \in FrameSizes :
                    LET d == AllocDecision(start, input_end[p], size)
                    IN  d.ok =>
                          /\ d.ptr + size <= TLS_INPUT_BUFFER_SIZE
                          /\ RangeBytes(d.ptr, size) \cap FrameBytes(p) = {}
                          /\ d.marker =>
                                /\ input_end[p] \notin FrameBytes(p)
                                /\ input_end[p] \notin RangeBytes(d.ptr, size)
                          /\ AllocDecision(input_start[p], input_end[p],
                                           size).ok
          /\ Cardinality(FrameStarts(p)) = nalloc[p] - Len(dispatched[p])
          /\ \A q1, q2 \in FrameStarts(p) :
                q1 # q2 =>
                    RangeBytes(q1, mem[p][q1].size)
                        \cap RangeBytes(q2, mem[p][q2].size) = {}
    /\ cpc # "crashed"

\* The producer is about to allocate while pinput_start_ has moved on since
\* its latest allocation: on the oldest value a frame of one size is
\* accepted, and a frame of another size is refused that the latest value
\* would accept.
C17_Witness ==
    /\ pc[MainThread] = "idle"
    /\ quota[MainThread] > 0
    /\ \E start \in start_seen[MainThread] :
          /\ start # input_start[MainThread]
          /\ \E size \in FrameSizes :
                AllocDecision(start, input_end[MainThread], size).ok
          /\ \E size \in FrameSizes :
                /\ ~AllocDecision(start, input_end[MainThread], size).ok
                /\ AllocDecision(input_start[MainThread],
                                 input_end[MainThread], size).ok

\* The ring of p holds nothing: every frame allocated in it has been
\* dispatched and discarded.
Drained(p) ==
    /\ input_start[p] = input_end[p]
    /\ commit_end[p] = input_end[p]
    /\ Len(dispatched[p]) = nalloc[p]
    /\ \A q \in Positions : mem[p][q] = Garbage

\* ~input_buffer releases the ring only when it is drained.
ReleasedOnlyWhenDrained == \A p \in Producers : pc[p] = "freed" => Drained(p)

\* The destructor of p's buffer waits in wait_input_consumed for an event
\* that is not signalled while the consumer, neither shut down nor ended,
\* sleeps in its indefinite wait with no signal pending and the main thread
\* waits for the consumer to end.
DtorStuck(p) ==
    /\ pc[p] = "dtor_wait"
    /\ ~input_consumed_event[p]
    /\ ConsumerAsleep
    /\ pc[MainThread] = "join"

\* C19: the destructor drains before release.  ~input_buffer releases the
\* ring only in a state where input_start = input_end and every frame
\* allocated in the buffer has been dispatched and discarded; and, the
\* consumer running, it is never left waiting for a wake-up that cannot
\* come.
C19_DestructorDrains ==
    /\ ReleasedOnlyWhenDrained
    /\ \A p \in Producers : ~DtorStuck(p)

\* A destructor stuck in its wait stays stuck.
DtorStuckIsPermanent ==
    [][\A p \in Producers : DtorStuck(p) => DtorStuck(p)']_vars

\* The destructor released a ring after waiting for two frames to be
\* dispatched.
DtorReleasedAfterDrain ==
    /\ pc[2] = "freed"
    /\ nalloc[2] = MainFrames
    /\ Len(dispatched[2]) = MainFrames

\* The consumer holds, or will pop, an extent of buffer b.
ExtentOutstanding(b) ==
    \/ \E i \in 1 .. Len(queue) : queue[i].buf = b
    \/ cpc \in {"popped", "walk", "wrapped", "discarded"} /\ ce.buf = b

\* C20: no use of a destroyed input buffer.  Once ~input_buffer has released
\* a buffer no commit extent referencing it, empty extents included, is in
\* the shared queue or being processed by the consumer.
C20_NoUseAfterRelease ==
    \A p \in Producers : pc[p] = "freed" => ~ExtentOutstanding(p)

\* The consumer is walking a popped extent.
Walking == cpc \in {"walk", "wrapped", "discarded"} /\ ce.buf # NullBuffer

\* The distance the read position of the walk has still to go.
WalkLeft == Dist(input_start[ce.buf], ce.end)

\* In every state of a walk the read position is at a frame or a marker and
\* has not stepped over the extent's commit_end: at a frame, the frame ends
\* at or before it; at a
\* marker, commit_end lies beyond the start of the ring and the frame there
\* ends at or before it; and between two walks input_start is the
\* commit_end of the extent walked last, every frame it published being
\* dispatched.
WalkWithinExtent ==
    /\ cpc # "crashed"
    /\ cpc = "walk" =>
          /\ input_start[ce.buf] # ce.end
          /\ WordAt(ce.buf).kind \in {"frame", "marker"}
          /\ WordAt(ce.buf).kind = "frame" =>
                WordAt(ce.buf).size <= WalkLeft
          /\ WordAt(ce.buf) = WRAPAROUND_MARKER =>
                /\ ce.end # 0
                /\ mem[ce.buf][0].kind = "frame"
                /\ mem[ce.buf][0].size <= ce.end
    /\ cpc = "wrapped" =>
          /\ input_start[ce.buf] = 0
          /\ ce.end # 0
          /\ WordAt(ce.buf).kind = "frame"
          /\ WordAt(ce.buf).size <= ce.end
    /\ cpc \in {"pop", "wait"} /\ ce.buf # NullBuffer =>
          /\ input_start[ce.buf] = ce.end
          /\ Len(dispatched[ce.buf]) = ce.n

\* The steps of a walk: a dispatch or a wraparound brings the read position
\* strictly nearer to commit_end and each dispatch is of one frame, which it
\* discards by its size; the walk
\* ends only with input_start = commit_end; an extent that is empty when
\* popped dispatches nothing; and input_start of a buffer moves only in a
\* walk of an extent of that buffer, so that a walk starts where the
\* previous walk of the same buffer ended.
WalkSteps ==
    /\ cpc \in {"walk", "wrapped"} /\ cpc' \in {"wrapped", "discarded"}
       /\ cpc' # cpc =>
          /\ Dist(input_start'[ce.buf], ce.end) < WalkLeft
          /\ cpc' = "discarded" =>
                /\ Len(dispatched'[ce.buf]) = Len(dispatched[ce.buf]) + 1
                /\ Dist(input_start'[ce.buf], ce.end)
                      = WalkLeft - WordAt(ce.buf).size
    /\ cpc \in {"popped", "discarded"} /\ ce.buf # NullBuffer /\ cpc' # cpc =>
          /\ cpc' = "pop" => input_start[ce.buf] = ce.end
          /\ cpc' = "walk" => input_start[ce.buf] # ce.end
          /\ cpc = "popped" /\ input_start[ce.buf] = ce.end =>
                cpc' = "pop" /\ dispatched' = dispatched
    /\ \A b \in Producers :
          input_start'[b] # input_start[b] =>
              cpc \in {"walk", "wrapped"} /\ ce.buf = b
    /\ Walking => ce' = ce

\* C21: each extent walk stops exactly at its commit_end.  For every extent
\* the consumer pops, the read position starts where the previous walk of
\* the same buffer ended, advances frame by frame without ever stepping
\* over the extent's commit_end, and reaches exactly commit_end after
\* finitely many dispatches; after the walk input_start = commit_end; an
\* extent that is empty when popped dispatches nothing.
C21_WalkStopsAtCommitEnd == []WalkWithinExtent /\ [][WalkSteps]_vars

\* The consumer has ended the walk of an extent that went round the end of
\* the ring, two frames dispatched, while a later frame is in the ring
\* unpublished.
C21_Witness ==
    /\ cpc = "pop"
    /\ ce.buf = MainThread
    /\ wraps[MainThread] >= 1
    /\ ce.n >= 2
    /\ Len(dispatched[MainThread]) = ce.n
    /\ input_start[MainThread] = ce.end
    /\ input_end[MainThread] # ce.end

====
